---- MODULE Spec2Model ----
(***************************************************************************)
(* Doctor House backend (src/backend.py): the weighted diagnosis graph,    *)
(* its breadth-first shortest_path, and calculate_potential_disease.       *)
(*                                                                         *)
(* Python floats are modelled as exact rationals <<num, den>> in lowest    *)
(* terms (den > 0); 0.0 is <<0, 1>>.  Iterating a Python set has no        *)
(* specified order: every place the code iterates a set is a choice over   *)
(* all orders of that set.                                                 *)
(***************************************************************************)
EXTENDS Integers, Sequences, FiniteSets, TLC

\* ---------------------------------------------------------------- bounds
MaxObjects == 4        \* add_vertex calls (each allocates one _Vertex)
MaxEdges == 4          \* neighbour entries are capped at 2 * MaxEdges
MaxScoredEdges == 2    \* the same cap where edges of several severities are scored
MaxLoopEdges == 3      \* the same cap where termination of the search is checked
MaxSeverity == 2       \* edge_value ranges over 1..MaxSeverity
MaxSymptoms == 3       \* length of the symptom list of one diagnosis

\* Vertex items.  Items are opaque keys (the code only hashes and compares
\* them), so a first-time item is always the next unused one of NameSeq.
NameSeq == <<"a", "b", "c", "d", "e", "f">>
Names == {NameSeq[i] : i \in 1..MaxObjects}
Kinds == {"symptom", "disease"}
Severities == 1..MaxSeverity

VARIABLES
    vertices,   \* Graph._vertices: item -> reference (index into heap)
    heap,       \* the _Vertex objects ever constructed, by reference
    exc,        \* what the last Graph call raised ("none" when it returned)
    sp,         \* the activation record of a running shortest_path call
    dg          \* the activation record of calculate_potential_disease

vars == <<vertices, heap, exc, sp, dg>>

\* ------------------------------------------------------------- rationals
RECURSIVE Gcd(_, _)
Gcd(m, n) == IF n = 0 THEN m ELSE Gcd(n, m % n)

Abs(n) == IF n < 0 THEN -n ELSE n

Rat(n, d) ==
    LET g == Gcd(Abs(n), Abs(d))
        s == IF d < 0 THEN -1 ELSE 1
    IN  <<(s * n) \div g, (s * d) \div g>>

Zero == Rat(0, 1)
RAdd(x, y) == Rat(x[1] * y[2] + y[1] * x[2], x[2] * y[2])
RMul(x, y) == Rat(x[1] * y[1], x[2] * y[2])
RDiv(x, y) == Rat(x[1] * y[2], x[2] * y[1])
One == Rat(1, 1)
Hundred == Rat(100, 1)

\* Python's x / y: ZeroDivisionError when y is zero.
ZeroDivisionError == "ZeroDivisionError"
PyDiv(x, y) == IF y = Zero THEN ZeroDivisionError ELSE RDiv(x, y)

\* Python's sum(d.values()) of a dict d, from 0.
RECURSIVE SumOver(_, _)
SumOver(d, keys) ==
    IF keys = {} THEN Zero
    ELSE LET k == CHOOSE k \in keys : TRUE
         IN  RAdd(d[k], SumOver(d, keys \ {k}))
sum_values(d) == SumOver(d, DOMAIN d)

\* All the orders in which a set can be iterated.
Orderings(S) ==
    {q \in [1..Cardinality(S) -> S] : \A i, j \in 1..Cardinality(S) : q[i] = q[j] => i = j}

\* ----------------------------------------------------------------- Graph
\* _Vertex(item, neighbours, kind)
Vertex(item, neighbours, kind) ==
    [item |-> item, neighbours |-> neighbours, kind |-> kind]

NeighbourEntries == LET Sum[i \in 0..Len(heap)] ==
                            IF i = 0 THEN 0
                            ELSE Sum[i - 1] + Cardinality(heap[i].neighbours)
                    IN  Sum[Len(heap)]

\* No call is in progress (the program is single-threaded: a call runs to
\* its return before the next one starts).
SpIdle == [pc |-> "idle", start |-> "", end |-> "", queue |-> << >>,
           visited |-> {}, result |-> << >>]
DgIdle == [pc |-> "idle", symptoms |-> << >>, paths |-> << >>, weights |-> << >>,
           scores |-> << >>, result |-> << >>, raised |-> "none"]
Idle == sp.pc = "idle" /\ dg.pc = "idle"

\* Graph.__init__
Init ==
    /\ vertices = << >>
    /\ heap = << >>
    /\ exc = "none"
    /\ sp = SpIdle
    /\ dg = DgIdle

\* Graph.add_vertex: no membership test; the table entry is (re)bound to a
\* fresh _Vertex with an empty neighbour set.
add_vertex(item, item_kind) ==
    /\ Idle
    /\ Len(heap) < MaxObjects
    /\ item \in DOMAIN vertices \/ item = NameSeq[Cardinality(DOMAIN vertices) + 1]
    /\ heap' = Append(heap, Vertex(item, {}, item_kind))
    /\ vertices' = [n \in DOMAIN vertices \cup {item} |->
                        IF n = item THEN Len(heap) + 1 ELSE vertices[n]]
    /\ exc' = "none"
    /\ UNCHANGED <<sp, dg>>

\* Graph.add_edge (precondition item1 != item2)
add_edge(item1, item2, edge_value) ==
    /\ Idle
    /\ item1 # item2
    /\ IF item1 \in DOMAIN vertices /\ item2 \in DOMAIN vertices
       THEN LET v1 == vertices[item1]
                v2 == vertices[item2]
                w  == Rat(1, edge_value)
                h  == [heap EXCEPT ![v1].neighbours = @ \cup {<<v2, w>>},
                                   ![v2].neighbours = @ \cup {<<v1, w>>}]
            IN  /\ heap' = h
                /\ exc' = "none"
       ELSE /\ heap' = heap
            /\ exc' = "ValueError"
    /\ NeighbourEntries' <= 2 * MaxEdges
    /\ UNCHANGED <<vertices, sp, dg>>

\* Graph.adjacent
adjacent(item1, item2) ==
    IF item1 \in DOMAIN vertices /\ item2 \in DOMAIN vertices
    THEN \E v2 \in heap[vertices[item1]].neighbours : heap[v2[1]].item = item2
    ELSE FALSE

\* Graph.get_neighbours (defined for item in _vertices; raises otherwise)
get_neighbours(item) ==
    {heap[neighbour[1]].item : neighbour \in heap[vertices[item]].neighbours}

\* Graph.get_vertex_kind
get_vertex_kind(item) == heap[vertices[item]].kind

\* Graph.get_weight_of_edge: the loop returns the weight of the first entry,
\* in the set's iteration order, whose vertex carries item_2; any matching
\* entry can be that first one.  0.0 when none matches.
get_weight_of_edge(item_1, item_2) ==
    LET hits == {neighbour \in heap[vertices[item_1]].neighbours :
                    heap[neighbour[1]].item = item_2}
    IN  IF hits = {} THEN {Zero} ELSE {neighbour[2] : neighbour \in hits}

\* ------------------------------------------------------- shortest_path
\* LoopBody with the neighbours marked visited as they are enqueued.
LoopBodyMarkOnEnqueue(queue, visited, end, ord) ==
    LET path == Head(queue)
        rest == Tail(queue)
        node == path[Len(path)]
    IN  IF node = end
        THEN [returned |-> TRUE, result |-> path, queue |-> rest, visited |-> visited]
        ELSE IF node \notin visited
        THEN [returned |-> FALSE, result |-> << >>,
              queue |-> rest \o [i \in 1..Len(ord) |-> Append(path, ord[i])],
              visited |-> visited \cup {node} \cup {ord[i] : i \in 1..Len(ord)}]
        ELSE [returned |-> FALSE, result |-> << >>, queue |-> rest, visited |-> visited]

\* LoopBody taking the newest path of the queue (queue.pop() for pop(0)).
LoopBodyPopLast(queue, visited, end, ord) ==
    LET path == queue[Len(queue)]
        rest == SubSeq(queue, 1, Len(queue) - 1)
        node == path[Len(path)]
    IN  IF node = end
        THEN [returned |-> TRUE, result |-> path, queue |-> rest, visited |-> visited]
        ELSE IF node \notin visited
        THEN [returned |-> FALSE, result |-> << >>,
              queue |-> rest \o [i \in 1..Len(ord) |-> Append(path, ord[i])],
              visited |-> visited \cup {node}]
        ELSE [returned |-> FALSE, result |-> << >>, queue |-> rest, visited |-> visited]

\* LoopBody reading the head of the queue without removing it
\* (queue[0] for queue.pop(0)).
LoopBodyNoPop(queue, visited, end, ord) ==
    LET path == Head(queue)
        node == path[Len(path)]
    IN  IF node = end
        THEN [returned |-> TRUE, result |-> path, queue |-> queue, visited |-> visited]
        ELSE IF node \notin visited
        THEN [returned |-> FALSE, result |-> << >>,
              queue |-> queue \o [i \in 1..Len(ord) |-> Append(path, ord[i])],
              visited |-> visited \cup {node}]
        ELSE [returned |-> FALSE, result |-> << >>, queue |-> queue, visited |-> visited]

\* One iteration of `while queue:` (lines 168-179), the neighbours of the
\* dequeued node being iterated in the order ord.
LoopBody(queue, visited, end, ord) ==
    LET path == Head(queue)
        rest == Tail(queue)
        node == path[Len(path)]
    IN  IF node = end
        THEN [returned |-> TRUE, result |-> path, queue |-> rest, visited |-> visited]
        ELSE IF node \notin visited
        THEN [returned |-> FALSE, result |-> << >>,
              queue |-> rest \o [i \in 1..Len(ord) |-> Append(path, ord[i])],
              visited |-> visited \cup {node}]
        ELSE [returned |-> FALSE, result |-> << >>, queue |-> rest, visited |-> visited]

\* The neighbour orders the iteration at line 176 can take for the node
\* about to be dequeued.
OrdersAtHead(queue, visited, end) ==
    LET path == Head(queue)
        node == path[Len(path)]
    IN  IF node = end \/ node \in visited THEN {<< >>}
        ELSE Orderings(get_neighbours(node))

\* shortest_path, entry: the membership test and the initial queue.
shortest_path_call(start, end) ==
    /\ Idle
    /\ IF start \notin DOMAIN vertices \/ end \notin DOMAIN vertices
       THEN sp' = [pc |-> "done", start |-> start, end |-> end, queue |-> << >>,
                   visited |-> {}, result |-> << >>]
       ELSE sp' = [pc |-> "loop", start |-> start, end |-> end,
                   queue |-> <<<<start>>>>, visited |-> {}, result |-> << >>]
    /\ UNCHANGED <<vertices, heap, exc, dg>>

\* shortest_path, the while loop: its test and one iteration.  On return the
\* queue is dropped with the frame; visited is kept as a record of the run.
shortest_path_loop ==
    /\ sp.pc = "loop"
    /\ IF sp.queue = << >>
       THEN sp' = [sp EXCEPT !.pc = "done", !.result = << >>]
       ELSE \E ord \in OrdersAtHead(sp.queue, sp.visited, sp.end) :
                LET r == LoopBody(sp.queue, sp.visited, sp.end, ord)
                IN  sp' = [sp EXCEPT !.pc = IF r.returned THEN "done" ELSE "loop",
                                     !.result = r.result,
                                     !.queue = IF r.returned THEN << >> ELSE r.queue,
                                     !.visited = r.visited]
    /\ UNCHANGED <<vertices, heap, exc, dg>>

\* The caller takes the returned list; the activation record is gone.
shortest_path_return ==
    /\ sp.pc = "done"
    /\ sp' = SpIdle
    /\ UNCHANGED <<vertices, heap, exc, dg>>

\* ---------------------------------------------------- iteration orders
\* A set that is not modified between two iterations is iterated in the
\* same order both times.  Within one calculate_potential_disease call the
\* graph is only read, so the call sees one iteration order per vertex:
\*   order[n]        the order in which get_neighbours(n) yields its items,
\*   first[<<n, m>>] the weight of the entry for m met first in n.neighbours.
Extend(f, k, v) == [x \in DOMAIN f \cup {k} |-> IF x = k THEN v ELSE f[x]]

RECURSIVE OrdersOver(_)
OrdersOver(S) ==
    IF S = {} THEN {<< >>}
    ELSE LET n == CHOOSE n \in S : TRUE
         IN  {Extend(o, n, q) : o \in OrdersOver(S \ {n}), q \in Orderings(get_neighbours(n))}

RECURSIVE FirstsOver(_)
FirstsOver(P) ==
    IF P = {} THEN {<< >>}
    ELSE LET nm == CHOOSE nm \in P : TRUE
         IN  {Extend(f, nm, w) : f \in FirstsOver(P \ {nm}),
                                 w \in get_weight_of_edge(nm[1], nm[2])}

\* The vertices and pairs where there is a choice, and the only value
\* elsewhere.
NeighbourOrders ==
    LET open == {n \in DOMAIN vertices : Cardinality(get_neighbours(n)) > 1}
    IN  {[n \in DOMAIN vertices |->
            IF n \in open THEN o[n] ELSE CHOOSE q \in Orderings(get_neighbours(n)) : TRUE]
         : o \in OrdersOver(open)}

FirstWeights ==
    LET pairs == (DOMAIN vertices) \X (DOMAIN vertices)
        open == {nm \in pairs : Cardinality(get_weight_of_edge(nm[1], nm[2])) > 1}
    IN  {[nm \in pairs |->
            IF nm \in open THEN f[nm] ELSE CHOOSE w \in get_weight_of_edge(nm[1], nm[2]) : TRUE]
         : f \in FirstsOver(open)}

Iterations == {[order |-> o, first |-> f] : o \in NeighbourOrders, f \in FirstWeights}

\* The while loop of shortest_path run to its return under the orders of it.
RECURSIVE shortest_path_run(_, _, _, _)
shortest_path_run(queue, visited, end, it) ==
    IF queue = << >> THEN << >>
    ELSE LET path == Head(queue)
             node == path[Len(path)]
             ord == IF node = end \/ node \in visited THEN << >> ELSE it.order[node]
             r == LoopBody(queue, visited, end, ord)
         IN  IF r.returned THEN r.result
             ELSE shortest_path_run(r.queue, r.visited, end, it)

\* Graph.shortest_path(start, end) as one call.
shortest_path(start, end, it) ==
    IF start \notin DOMAIN vertices \/ end \notin DOMAIN vertices THEN << >>
    ELSE shortest_path_run(<<<<start>>>>, {}, end, it)

\* ------------------------------------------ calculate_potential_disease
\* Graph.calculate_path_score
RECURSIVE path_score_from(_, _, _, _)
path_score_from(path, i, score, it) ==
    IF i > Len(path) - 1 THEN score
    ELSE path_score_from(path, i + 1, RAdd(score, it.first[<<path[i], path[i + 1]>>]), it)
calculate_path_score(path, it) == path_score_from(path, 1, Zero, it)

\* generate_combinations
generate_combinations(lst) ==
    LET Row(i) == [k \in 1..(Len(lst) - i) |-> <<lst[i], lst[i + k]>>]
        Rows[i \in 0..Len(lst)] == IF i = 0 THEN << >> ELSE Rows[i - 1] \o Row(i)
    IN  Rows[Len(lst)]

\* scores.get(vertex, 0)
dict_get(scores, key, default) ==
    IF key \in DOMAIN scores THEN scores[key] ELSE default

\* score_path assigning the path's score instead of adding it
\* (scores[vertex] = ... for scores[vertex] = scores.get(vertex, 0) + ...).
RECURSIVE score_path_overwrite(_, _, _, _)
score_path_overwrite(scores, path, w, i) ==
    IF i > Len(path) THEN scores
    ELSE LET vertex == path[i]
             upd == IF get_vertex_kind(vertex) = "disease"
                    THEN Extend(scores, vertex, w)
                    ELSE scores
         IN  score_path_overwrite(upd, path, w, i + 1)

\* Lines 327-329 for one path of score w: every vertex of kind disease on it
\* gets w added.
RECURSIVE score_path(_, _, _, _)
score_path(scores, path, w, i) ==
    IF i > Len(path) THEN scores
    ELSE LET vertex == path[i]
             upd == IF get_vertex_kind(vertex) = "disease"
                    THEN Extend(scores, vertex, RAdd(dict_get(scores, vertex, Zero), w))
                    ELSE scores
         IN  score_path(upd, path, w, i + 1)

\* Lines 325-329: the loop over the pairs from index i on.  A run records
\* the path returned for each pair, its score, and the raw scores.
RECURSIVE pair_loop(_, _, _, _)
pair_loop(pairs, i, run, it) ==
    IF i > Len(pairs) THEN run
    ELSE LET path == shortest_path(pairs[i][1], pairs[i][2], it)
             w == calculate_path_score(path, it)
         IN  pair_loop(pairs, i + 1,
                       [paths |-> Append(run.paths, path),
                        weights |-> Append(run.weights, w),
                        scores |-> score_path(run.scores, path, w, 1)], it)

\* Lines 320-323: the single-symptom branch.
single_symptom(symptom, it) ==
    [paths |-> << >>, weights |-> << >>,
     scores |-> [neighbour \in get_neighbours(symptom) |-> it.first[<<neighbour, symptom>>]]]

\* Lines 318-329: the raw scores.
raw_scores(symptoms, it) ==
    IF Len(symptoms) = 1 THEN single_symptom(symptoms[1], it)
    ELSE pair_loop(generate_combinations(symptoms), 1,
                   [paths |-> << >>, weights |-> << >>, scores |-> << >>], it)

\* invert without the `if score != 0` filter.
invertUnfiltered(scores) ==
    [disease \in DOMAIN scores |-> PyDiv(One, scores[disease])]

\* Line 332: invert, dropping the zero scores.
invert(scores) ==
    [disease \in {d \in DOMAIN scores : scores[d] # Zero} |-> PyDiv(One, scores[disease])]

\* Lines 332-336.  The result is the percentage map, or the exception raised.
normalise(scores) ==
    LET inverted == invert(scores)
    IN  IF \E d \in DOMAIN inverted : inverted[d] = ZeroDivisionError
        THEN [raised |-> ZeroDivisionError, result |-> << >>]
        ELSE LET sum_scores == sum_values(inverted)
             IN  IF DOMAIN inverted # {} /\ sum_scores = Zero
                 THEN [raised |-> ZeroDivisionError, result |-> << >>]
                 ELSE [raised |-> "none",
                       result |-> [d \in DOMAIN inverted |->
                                     RMul(RDiv(inverted[d], sum_scores), Hundred)]]

\* The symptom lists a diagnosis is asked for: non-empty, of symptom
\* vertices of the graph.
SymptomNames == {n \in DOMAIN vertices : get_vertex_kind(n) = "symptom"}
SymptomLists == UNION {[1..n -> SymptomNames] : n \in 1..MaxSymptoms}

\* calculate_potential_disease(diagnosis_graph, symptoms)
calculate_potential_disease(symptoms, it) ==
    /\ Idle
    /\    LET run == raw_scores(symptoms, it)
              out == normalise(run.scores)
          IN  dg' = [pc |-> "done", symptoms |-> symptoms, paths |-> run.paths,
                     weights |-> run.weights, scores |-> run.scores,
                     result |-> out.result, raised |-> out.raised]
    /\ UNCHANGED <<vertices, heap, exc, sp>>

\* The caller (check_diagnosis) prints the map and drops it.
diagnosis_return ==
    /\ dg.pc = "done"
    /\ dg' = DgIdle
    /\ UNCHANGED <<vertices, heap, exc, sp>>

Next ==
    \/ \E item \in Names, k \in Kinds : add_vertex(item, k)
    \/ \E i1, i2 \in Names, s \in Severities : add_edge(i1, i2, s)

Spec == Init /\ [][Next]_vars

\* shortest_path reads neither kinds nor weights: the graphs it is run on
\* are built with one kind and one severity.
NextSP ==
    \/ \E item \in Names : add_vertex(item, "symptom")
    \/ \E i1, i2 \in Names : add_edge(i1, i2, 1)
    \/ \E start, end \in Names : shortest_path_call(start, end)
    \/ shortest_path_loop
    \/ shortest_path_return

SpecSP == Init /\ [][NextSP]_vars

\* The same calls on graphs of at most MaxLoopEdges edges.  The loop is
\* straight-line code: once entered it keeps running.
NextLoop ==
    \/ \E item \in Names : add_vertex(item, "symptom")
    \/ \E i1, i2 \in Names :
            add_edge(i1, i2, 1) /\ NeighbourEntries' <= 2 * MaxLoopEdges
    \/ \E start, end \in Names : shortest_path_call(start, end)
    \/ shortest_path_loop
    \/ shortest_path_return

SpecSPFair == Init /\ [][NextLoop]_vars /\ WF_vars(shortest_path_loop)

\* Diagnoses on graphs of at most MaxScoredEdges edges, of every severity.
NextDG ==
    \/ \E item \in Names, k \in Kinds : add_vertex(item, k)
    \/ \E i1, i2 \in Names, s \in Severities :
            add_edge(i1, i2, s) /\ NeighbourEntries' <= 2 * MaxScoredEdges
    \/ \E it \in Iterations, symptoms \in SymptomLists :
            calculate_potential_disease(symptoms, it)
    \/ diagnosis_return

SpecDG == Init /\ [][NextDG]_vars

\* Diagnoses on graphs of at most MaxEdges edges, all of severity 1.
NextPairs ==
    \/ \E item \in Names, k \in Kinds : add_vertex(item, k)
    \/ \E i1, i2 \in Names : add_edge(i1, i2, 1)
    \/ \E it \in Iterations, symptoms \in SymptomLists :
            calculate_potential_disease(symptoms, it)
    \/ diagnosis_return

SpecPairs == Init /\ [][NextPairs]_vars

\* ======================================================== properties
\* Items reachable from the items of S in at most k steps along adjacent.
RECURSIVE Within(_, _)
Within(S, k) ==
    IF k = 0 THEN S
    ELSE LET R == Within(S, k - 1)
         IN  R \cup {b \in DOMAIN vertices : \E a \in R : adjacent(a, b)}

Connected(a, b) == b \in Within({a}, Cardinality(DOMAIN vertices))

\* Fewest hops of a path from a to b (for Connected(a, b)).
Hops(a, b) ==
    CHOOSE k \in 0..Cardinality(DOMAIN vertices) :
        /\ b \in Within({a}, k)
        /\ \A j \in 0..(k - 1) : b \notin Within({a}, j)

\* An add_edge(a, b, s) call has succeeded at some time: some _Vertex ever
\* built for a holds an entry for a vertex of item b with weight 1/s.
EdgeAdded(a, b, s) ==
    \E i \in 1..Len(heap) :
        /\ heap[i].item = a
        /\ \E e \in heap[i].neighbours : heap[e[1]].item = b /\ e[2] = Rat(1, s)

\* C5: add_vertex on an item that is already a vertex raises a
\* duplicate-vertex error and leaves the graph (table and vertices) as it was.
C5_DuplicateVertexRejected ==
    [][\A item \in Names, k \in Kinds :
          (item \in DOMAIN vertices /\ add_vertex(item, k))
              => (exc' = "DuplicateVertexError" /\ vertices' = vertices /\ heap' = heap)]_vars

\* C6: adjacency is symmetric in every reachable graph: for all items a, b,
\* adjacent(a, b) = adjacent(b, a).
C6_AdjacentSymmetric ==
    \A a, b \in Names : adjacent(a, b) = adjacent(b, a)

\* C7: for every edge added by add_edge(a, b, s), in every later state
\* get_weight_of_edge(a, b) and get_weight_of_edge(b, a) both return 1/s.
C7_WeightIsInverseSeverity ==
    \A a, b \in DOMAIN vertices, s \in Severities :
        EdgeAdded(a, b, s) =>
            /\ get_weight_of_edge(a, b) = {Rat(1, s)}
            /\ get_weight_of_edge(b, a) = {Rat(1, s)}

\* C8: shortest_path(a, b) returns the empty list exactly when a or b is not
\* a vertex or no path leads from a to b; shortest_path(x, x) for a vertex x
\* returns [x], whose path score is 0.
C8_EmptyIffAbsentOrUnreachable ==
    sp.pc = "done" =>
        /\ (sp.result = << >>) <=>
              \/ sp.start \notin DOMAIN vertices
              \/ sp.end \notin DOMAIN vertices
              \/ ~Connected(sp.start, sp.end)
        /\ (sp.start = sp.end /\ sp.start \in DOMAIN vertices) =>
              /\ sp.result = <<sp.start>>
              /\ \A it \in Iterations : calculate_path_score(sp.result, it) = Zero

\* A call between two vertices with no path between them, the start having
\* neighbours, has returned the empty list.
C8_Witness ==
    /\ sp.pc = "done"
    /\ sp.start \in DOMAIN vertices /\ sp.end \in DOMAIN vertices
    /\ ~Connected(sp.start, sp.end)
    /\ Cardinality(sp.visited) >= 2
    /\ sp.result = << >>

\* C9: a non-empty result of shortest_path(a, b) starts with a, ends with b,
\* joins adjacent vertices at every step, repeats no vertex, and has the
\* fewest hops of any path from a to b, whatever the neighbour orders.
C9_ResultIsShortestPath ==
    (sp.pc = "done" /\ sp.result # << >>) =>
        LET p == sp.result
        IN  /\ p[1] = sp.start
            /\ p[Len(p)] = sp.end
            /\ \A i \in 1..(Len(p) - 1) : adjacent(p[i], p[i + 1])
            /\ \A i, j \in 1..Len(p) : p[i] = p[j] => i = j
            /\ Len(p) - 1 = Hops(sp.start, sp.end)

\* A two-hop result was returned although the end vertex had been enqueued
\* by two different paths (two shortest paths compete).
C9_Witness ==
    /\ sp.pc = "done"
    /\ Len(sp.result) = 3
    /\ \E m \in DOMAIN vertices :
          /\ m \notin {sp.start, sp.end, sp.result[2]}
          /\ adjacent(sp.start, m) /\ adjacent(m, sp.end)
          /\ m \in sp.visited

\* C10: every shortest_path call terminates: a call whose loop is running
\* eventually returns.
C10_Terminates == (sp.pc = "loop") ~> (sp.pc = "done")

\* A call on a graph with a cycle, for an end vertex that cannot be
\* reached, has returned after visiting the whole cycle.
C10_Witness ==
    /\ sp.pc = "done"
    /\ sp.end \in DOMAIN vertices
    /\ sp.result = << >>
    /\ \E x, y, z \in sp.visited :
          /\ x # y /\ y # z /\ x # z
          /\ adjacent(x, y) /\ adjacent(y, z) /\ adjacent(z, x)

\* ---- calculate_potential_disease
Range(q) == {q[i] : i \in 1..Len(q)}

\* The index pairs i < j of a list of length n, and the position of the
\* pair (i, j) among them in the order i ascending, then j ascending.
IndexPairs(n) == {ij \in (1..n) \X (1..n) : ij[1] < ij[2]}
PairPosition(ij, n) == (ij[1] - 1) * n - ((ij[1] - 1) * ij[1]) \div 2 + (ij[2] - ij[1])

RECURSIVE SumWeights(_, _)
SumWeights(ws, idx) ==
    IF idx = {} THEN Zero
    ELSE LET k == CHOOSE k \in idx : TRUE
         IN  RAdd(ws[k], SumWeights(ws, idx \ {k}))

\* The pairs of the finished diagnosis whose returned path contains D.
PairsThrough(D) ==
    {PairPosition(ij, Len(dg.symptoms)) : ij \in
        {ij \in IndexPairs(Len(dg.symptoms)) :
            D \in Range(dg.paths[PairPosition(ij, Len(dg.symptoms))])}}

C3_SingleSymptom ==
    (dg.pc = "done" /\ Len(dg.symptoms) = 1) =>
        LET symptom == dg.symptoms[1]
            diseases == {n \in DOMAIN vertices :
                            get_vertex_kind(n) = "disease" /\ adjacent(symptom, n)}
        IN  /\ DOMAIN dg.result = diseases
            /\ \A D \in diseases :
                  /\ D \in DOMAIN dg.scores
                  /\ dg.scores[D] \in get_weight_of_edge(D, symptom)
            /\ \A D \in diseases :
                  diseases = {D} => dg.result = [d \in {D} |-> Hundred]

\* The list with repeated names removed, first occurrences kept.
RECURSIVE Dedupe(_)
Dedupe(lst) ==
    IF lst = << >> THEN << >>
    ELSE LET front == Dedupe(SubSeq(lst, 1, Len(lst) - 1))
             last == lst[Len(lst)]
         IN  IF last \in Range(front) THEN front ELSE Append(front, last)

\* Every map calculate_potential_disease can return for a list.
Results(lst) == {normalise(raw_scores(lst, it).scores) : it \in Iterations}

\* C4: a symptom list gives the same result as the list with its repeated
\* names removed.
C4_DuplicatesCountOnce ==
    dg.pc = "done" => Results(dg.symptoms) = Results(Dedupe(dg.symptoms))
====
